---------------------------- MODULE Spec2Model ----------------------------
(***************************************************************************)
(* State-machine model of aiops_log_anomaly_detector.py: the pipeline      *)
(* read_logs -> parse_logs -> feature_engineering -> detect_anomalies ->   *)
(* report run by main(), and detect_anomalies called on its own.           *)
(*                                                                         *)
(* A string is a sequence of one-character strings, so that strip, split   *)
(* and len act on characters as they do in Python.  A DataFrame is a       *)
(* record [index, columns]: the row labels and, per column name, the       *)
(* sequence of the column's values.                                        *)
(***************************************************************************)
EXTENDS Integers, Sequences, FiniteSets, TLC

(***************************************************************************)
(* Bounds of the model.                                                    *)
(***************************************************************************)
MaxLines == 3        \* lines in the log file
MaxVectors == 3      \* rows handed to a stand-alone detect_anomalies
MaxRuns == 2         \* stand-alone runs of detect_anomalies compared

(***************************************************************************)
(* Character strings used by the program and by the sample log lines.      *)
(***************************************************************************)
INFO == <<"I", "N", "F", "O">>
WARNING == <<"W", "A", "R", "N", "I", "N", "G">>
ERROR == <<"E", "R", "R", "O", "R">>
CRITICAL == <<"C", "R", "I", "T", "I", "C", "A", "L">>
DEBUG == <<"D", "E", "B", "U", "G">>
LowerInfo == <<"i", "n", "f", "o">>
SP == <<" ">>
NL == <<"\n">>
TAB == <<"\t">>
Date == <<"2", "0", "2", "4", "-", "0", "1", "-", "1", "5">>
BadDate == <<"2", "0", "2", "4", "-", "1", "3", "-", "4", "5">>
Time == <<"1", "0", ":", "2", "3", ":", "0", "1">>
Bad == <<"b", "a", "d">>
Up == <<"u", "p">>
DiskFull == <<"d", "i", "s", "k", " ", "f", "u", "l", "l">>

\* The lines a log file is made of in this model: well-formed lines of every
\* level, and each way a line can be malformed or oddly spaced.
SampleLines ==
    { Date \o SP \o Time \o SP \o INFO \o SP \o Up \o NL,
      Date \o SP \o Time \o SP \o WARNING \o SP \o Up \o NL,
      Date \o SP \o Time \o SP \o CRITICAL \o SP \o DiskFull \o NL,
      SP \o TAB \o Date \o SP \o Time \o SP \o ERROR \o SP \o <<"x">>,
      Date \o SP \o Time \o SP \o DEBUG \o SP \o SP \o <<"y">> \o SP \o TAB \o NL,
      Date \o SP \o Time \o SP \o SP \o LowerInfo \o SP \o Up \o NL,
      Bad \o SP \o Time \o SP \o INFO \o SP \o Up \o NL,
      BadDate \o SP \o Time \o SP \o ERROR \o SP \o Up \o NL,
      Date \o SP \o Time \o SP \o INFO \o NL,
      NL }

Paths == {"system_logs.txt", "app.log"}

RECURSIVE SeqsUpTo(_, _)
\* All sequences over S of length 0..n.
SeqsUpTo(S, n) ==
    IF n = 0 THEN {<<>>}
    ELSE LET shorter == SeqsUpTo(S, n - 1)
         IN shorter \cup {Append(s, x) : s \in {t \in shorter : Len(t) = n - 1}, x \in S}

(***************************************************************************)
(* Python str methods.                                                     *)
(***************************************************************************)
\* The characters str.strip() removes by default (those of the model's alphabet).
Whitespace == {" ", "\t", "\n", "\r"}

RECURSIVE lstrip(_)
lstrip(s) ==
    IF s # <<>> /\ Head(s) \in Whitespace THEN lstrip(Tail(s)) ELSE s

RECURSIVE rstrip(_)
rstrip(s) ==
    IF s # <<>> /\ s[Len(s)] \in Whitespace THEN rstrip(SubSeq(s, 1, Len(s) - 1)) ELSE s

\* Faulty variant of strip: removes trailing whitespace only (str.rstrip).
strip_trailing_only(s) == rstrip(s)

\* str.strip(): whitespace is removed from both ends.
strip(s) == rstrip(lstrip(s))

RECURSIVE split(_, _, _)
\* str.split(sep, maxsplit) for a one-character sep: cut at each of the first
\* maxsplit occurrences of sep; adjacent separators give empty fields.
split(s, sep, maxsplit) ==
    IF maxsplit = 0 \/ ~(\E i \in 1..Len(s) : s[i] = sep) THEN <<s>>
    ELSE LET i == CHOOSE k \in 1..Len(s) : s[k] = sep /\ \A j \in 1..(k - 1) : s[j] # sep
         IN <<SubSeq(s, 1, i - 1)>> \o split(SubSeq(s, i + 1, Len(s)), sep, maxsplit - 1)

(***************************************************************************)
(* pandas: DataFrame, to_datetime, dropna, boolean indexing.               *)
(***************************************************************************)
Range(n) == [i \in 1..n |-> i - 1]

\* pd.DataFrame(data, columns=names): rows labelled 0..len(data)-1.
DataFrame(data, names) ==
    [index |-> Range(Len(data)),
     columns |-> [c \in {names[k] : k \in 1..Len(names)} |->
                    LET k == CHOOSE k \in 1..Len(names) : names[k] = c
                    IN [i \in 1..Len(data) |-> data[i][k]]]]

NRows(df) == Len(df.index)

\* Faulty variant of df.empty: a frame that has columns never counts as empty.
empty_no_columns(df) == DOMAIN df.columns = {}

\* df.empty
empty(df) == NRows(df) = 0

\* df[name] = values: the column is added or replaced, nothing else changes.
SetColumn(df, name, values) ==
    [index |-> df.index,
     columns |-> [c \in DOMAIN df.columns \cup {name} |->
                    IF c = name THEN values ELSE df.columns[c]]]

RECURSIVE Positions(_, _)
\* The positions 1..n of the rows for which keep holds, in increasing order.
Positions(keep, n) ==
    IF n = 0 THEN <<>>
    ELSE IF keep[n] THEN Append(Positions(keep, n - 1), n) ELSE Positions(keep, n - 1)

\* df[mask]: the rows whose mask is true, in order, with their labels.
Filter(df, mask) ==
    LET pos == Positions(mask, NRows(df))
    IN [index |-> [k \in 1..Len(pos) |-> df.index[pos[k]]],
        columns |-> [c \in DOMAIN df.columns |->
                       [k \in 1..Len(pos) |-> df.columns[c][pos[k]]]]]

\* Not-a-Time, the value errors="coerce" puts where a string does not parse.
NaT == <<>>

Digits == {"0", "1", "2", "3", "4", "5", "6", "7", "8", "9"}

DigitVal(c) ==
    CASE c = "0" -> 0 [] c = "1" -> 1 [] c = "2" -> 2 [] c = "3" -> 3 [] c = "4" -> 4
      [] c = "5" -> 5 [] c = "6" -> 6 [] c = "7" -> 7 [] c = "8" -> 8 [] c = "9" -> 9

Num(s, from, to) ==
    LET RECURSIVE val(_)
        val(k) == IF k < from THEN 0 ELSE 10 * val(k - 1) + DigitVal(s[k])
    IN val(to)

DaysInMonth(y, m) ==
    IF m \in {4, 6, 9, 11} THEN 30
    ELSE IF m # 2 THEN 31
    ELSE IF (y % 4 = 0 /\ y % 100 # 0) \/ y % 400 = 0 THEN 29 ELSE 28

\* pd.to_datetime(s, errors="coerce") on the strings of the model: a string
\* "YYYY-MM-DD HH:MM:SS" naming a real date and time becomes the datetime
\* <<year, month, day, hour, minute, second>>, any other string becomes NaT.
to_datetime(s) ==
    IF /\ Len(s) = 19
       /\ s[5] = "-" /\ s[8] = "-" /\ s[11] = " " /\ s[14] = ":" /\ s[17] = ":"
       /\ \A k \in (1..19) \ {5, 8, 11, 14, 17} : s[k] \in Digits
    THEN LET dt == <<Num(s, 1, 4), Num(s, 6, 7), Num(s, 9, 10),
                     Num(s, 12, 13), Num(s, 15, 16), Num(s, 18, 19)>>
         IN IF /\ dt[1] >= 1 /\ dt[2] \in 1..12 /\ dt[3] \in 1..DaysInMonth(dt[1], dt[2])
               /\ dt[4] \in 0..23 /\ dt[5] \in 0..59 /\ dt[6] \in 0..59
            THEN dt ELSE NaT
    ELSE NaT

\* Faulty variant of dropna: drops nothing.
dropna_nothing(df, subset) == df

\* df.dropna(subset=[subset]): the rows whose value in that column is missing go.
dropna(df, subset) ==
    Filter(df, [i \in 1..NRows(df) |-> df.columns[subset][i] # NaT])

(***************************************************************************)
(* parse_logs                                                              *)
(***************************************************************************)
RECURSIVE parse_rows_three_parts(_)
\* Faulty variant of the loop: a line of 3 parts is kept, with an empty message.
parse_rows_three_parts(logs) ==
    IF logs = <<>> THEN <<>>
    ELSE LET parts == split(strip(Head(logs)), " ", 3)
             rest == parse_rows_three_parts(Tail(logs))
         IN IF Len(parts) < 3 THEN rest
            ELSE <<<<parts[1] \o <<" ">> \o parts[2], parts[3],
                     IF Len(parts) = 4 THEN parts[4] ELSE <<>>>>>> \o rest

RECURSIVE parse_rows(_)
\* The for loop of parse_logs: one [timestamp_str, level, message] per line
\* that splits into 4 parts, in the order of the lines.
parse_rows(logs) ==
    IF logs = <<>> THEN <<>>
    ELSE LET parts == split(strip(Head(logs)), " ", 3)
             rest == parse_rows(Tail(logs))
         IN IF Len(parts) < 4 THEN rest
            ELSE <<<<parts[1] \o <<" ">> \o parts[2], parts[3], parts[4]>>>> \o rest

parse_logs(logs) ==
    LET data == parse_rows(logs)
        df0 == DataFrame(data, <<"timestamp", "level", "message">>)
        df1 == SetColumn(df0, "timestamp",
                         [i \in 1..NRows(df0) |-> to_datetime(df0.columns["timestamp"][i])])
    IN dropna(df1, "timestamp")

(***************************************************************************)
(* feature_engineering                                                     *)
(***************************************************************************)
level_mapping == (INFO :> 1) @@ (WARNING :> 2) @@ (ERROR :> 3) @@ (CRITICAL :> 4)

\* Series.map(level_mapping).fillna(0) on one value.
level_score_of(level) ==
    IF level \in DOMAIN level_mapping THEN level_mapping[level] ELSE 0

\* Faulty variant of feature_engineering: the message is trimmed before it is measured.
feature_engineering_trimmed(df) ==
    LET trimmed == SetColumn(df, "message",
                       [i \in 1..NRows(df) |-> strip(df.columns["message"][i])])
        scored == SetColumn(trimmed, "level_score",
                       [i \in 1..NRows(df) |-> level_score_of(df.columns["level"][i])])
    IN SetColumn(scored, "message_length",
                 [i \in 1..NRows(df) |-> Len(trimmed.columns["message"][i])])

feature_engineering(df) ==
    LET scored == SetColumn(df, "level_score",
                      [i \in 1..NRows(df) |-> level_score_of(df.columns["level"][i])])
    IN SetColumn(scored, "message_length",
                 [i \in 1..NRows(df) |-> Len(df.columns["message"][i])])

(***************************************************************************)
(* detect_anomalies: scikit-learn's IsolationForest as the program uses    *)
(* it (max_samples="auto", bootstrap=False, max_features=1).               *)
(***************************************************************************)
\* One step of a linear congruential generator: the pseudo-random source.
Lcg(x) == (x * 75 + 74) % 65537

\* The k-th number a tree seeded with seed draws at the node numbered node.
Draw(seed, node, k) == Lcg(Lcg(Lcg(seed) + 2 * node + k))

\* The seed given by random_state=42 in detect_anomalies.
RandomSeed == 42

\* Faulty variant of check_random_state: random_state=None, the generator is
\* the process's global one, seeded from the operating system's entropy.
check_random_state_global(random_state, np_random) == np_random

\* sklearn.utils.check_random_state(random_state): an integer seeds a generator
\* of its own, whatever the state of the process's global generator.
check_random_state(random_state, np_random) == random_state

RECURSIVE CeilLog2(_)
CeilLog2(n) == IF n <= 1 THEN 0 ELSE 1 + CeilLog2((n + 1) \div 2)

RECURSIVE Harmonic100(_)
\* 100 * (1 + 1/2 + ... + 1/k), rounded down term by term.
Harmonic100(k) == IF k = 0 THEN 0 ELSE Harmonic100(k - 1) + (100 \div k)

\* c(n), the average path length of an unsuccessful search among n points, in
\* hundredths: 0 for n <= 1, 1 for n = 2, 2H(n-1) - 2(n-1)/n beyond.
average_path_length(n) ==
    IF n <= 1 THEN 0
    ELSE 2 * Harmonic100(n - 1) - ((200 * (n - 1)) \div n)

SeqMin(s) == CHOOSE m \in {s[i] : i \in 1..Len(s)} : \A i \in 1..Len(s) : m <= s[i]
SeqMax(s) == CHOOSE m \in {s[i] : i \in 1..Len(s)} : \A i \in 1..Len(s) : m >= s[i]

\* The k-th smallest element (k from 1) of a finite set of integers.
RECURSIVE Nth(_, _)
Nth(S, k) ==
    LET m == CHOOSE x \in S : \A y \in S : x <= y
    IN IF k = 1 THEN m ELSE Nth(S \ {m}, k - 1)

RECURSIVE path_length(_, _, _, _, _, _)
\* The path length, in hundredths, of point x in the isolation tree grown from
\* the points S with the stream seeded by seed: at each node a feature is drawn
\* among those that vary in S and a threshold is drawn within its range; a node
\* of at most one point, of equal points, or at max_depth is a leaf, which adds
\* the average path length of its size.
path_length(x, S, seed, node, depth, max_depth) ==
    LET varying == {q \in 1..2 : \E i, j \in 1..Len(S) : S[i][q] # S[j][q]}
    IN IF Len(S) <= 1 \/ depth >= max_depth \/ varying = {}
       THEN 100 * depth + average_path_length(Len(S))
       ELSE LET q == Nth(varying, 1 + (Draw(seed, node, 0) % Cardinality(varying)))
                col == [i \in 1..Len(S) |-> S[i][q]]
                threshold == SeqMin(col) + (Draw(seed, node, 1) % (SeqMax(col) - SeqMin(col)))
                left == x[q] <= threshold
                InSide(v) == (v[q] <= threshold) = left
            IN path_length(x, SelectSeq(S, InSide), seed,
                           IF left THEN 2 * node ELSE 2 * node + 1, depth + 1, max_depth)

\* Trees in the forest (scikit-learn grows 100; the model grows fewer).
n_estimators == 2

RECURSIVE total_path_length(_, _, _, _)
total_path_length(x, X, rng, t) ==
    IF t = 0 THEN 0
    ELSE total_path_length(x, X, rng, t - 1)
         + path_length(x, X, Draw(rng, t, 2), 1, 0, CeilLog2(Len(X)))

\* IsolationForest.score_samples(X) after fit(X): the lower, the more abnormal.
\* The library's score is -2^(-h/c(n)) with h the mean path length over the
\* trees; the model keeps the total path length, which orders the points the
\* same way (every tree sees all points: max_samples = min(256, n) = n here).
score_samples(X, rng) ==
    [i \in 1..Len(X) |-> total_path_length(X[i], X, rng, n_estimators)]

\* den * np.percentile(a, 100 * num/den), linear interpolation between the two
\* order statistics around position (num/den) * (n - 1) of the sorted values.
percentile_times_den(a, contamination) ==
    LET sorted == SortSeq(a, LAMBDA u, v : u < v)
        n == Len(a)
        pos == contamination.num * (n - 1)
        lo == 1 + (pos \div contamination.den)
        hi == IF lo < n THEN lo + 1 ELSE lo
    IN contamination.den * sorted[lo]
       + (pos % contamination.den) * (sorted[hi] - sorted[lo])

\* Faulty variant of predict: a score equal to the threshold is an outlier too.
predict_at_or_below(scores, contamination) ==
    [i \in 1..Len(scores) |->
        IF contamination.den * scores[i] <= percentile_times_den(scores, contamination)
        THEN -1 ELSE 1]

\* IsolationForest.predict: -1 where decision_function = score - offset_ is
\* negative, offset_ being the contamination percentile of the training scores.
predict(scores, contamination) ==
    [i \in 1..Len(scores) |->
        IF contamination.den * scores[i] < percentile_times_den(scores, contamination)
        THEN -1 ELSE 1]

\* The feature matrix df[["level_score", "message_length"]].
Features(df) ==
    [i \in 1..NRows(df) |-> <<df.columns["level_score"][i], df.columns["message_length"][i]>>]

\* model.fit_predict(X) of IsolationForest(contamination, random_state=42).
fit_predict(X, contamination, np_random) ==
    predict(score_samples(X, check_random_state(RandomSeed, np_random)), contamination)

Anomaly == "Anomaly"
Normal == "Normal"

\* Faulty variant of detect_anomalies: only the rows found abnormal are returned.
detect_anomalies_filtering(df, contamination, np_random) ==
    LET pred == fit_predict(Features(df), contamination, np_random)
        labelled == SetColumn(SetColumn(df, "anomaly", pred), "is_anomaly",
                        [i \in 1..NRows(df) |-> IF pred[i] = -1 THEN Anomaly ELSE Normal])
    IN Filter(labelled, [i \in 1..NRows(df) |-> pred[i] = -1])

detect_anomalies(df, contamination, np_random) ==
    LET pred == fit_predict(Features(df), contamination, np_random)
    IN SetColumn(SetColumn(df, "anomaly", pred), "is_anomaly",
                 [i \in 1..NRows(df) |-> IF pred[i] = -1 THEN Anomaly ELSE Normal])

(***************************************************************************)
(* State.                                                                  *)
(***************************************************************************)
VARIABLES
    pc,             \* the statement of main() that runs next
    file_path,      \* the --file argument
    file_state,     \* "readable", "missing" or "unreadable"
    logs,           \* the list read_logs returned
    df,             \* the DataFrame main (or the caller of detect_anomalies) holds
    contamination,  \* the contamination handed to detect_anomalies, num/den
    np_random,      \* state of the process's global random generator
    stdout,         \* what was printed, in order
    exit_status,    \* <<>> while the process runs, <<status>> once it has ended
    calls,          \* the pipeline functions called so far, each with the rows it got
    runs            \* results of the stand-alone runs of detect_anomalies

vars == <<pc, file_path, file_state, logs, df, contamination, np_random,
          stdout, exit_status, calls, runs>>

NoFrame == DataFrame(<<>>, <<>>)

\* One print(): the text, the file it names and the rows it shows.
Message(text, file, rows) == [text |-> text, file |-> file, rows |-> rows]

Call(fn, n) == [fn |-> fn, n |-> n]

\* contamination=0.1, the value main passes and the parameter's default.
DefaultContamination == [num |-> 1, den |-> 10]

\* Seeds the operating system may give the process's global generator.
EntropySeeds == {7, 1234}

(***************************************************************************)
(* main(file_path)                                                         *)
(***************************************************************************)
Init ==
    /\ pc = "read_logs"
    /\ file_path \in Paths
    /\ file_state \in {"readable", "missing", "unreadable"}
    /\ logs = <<>>
    /\ df = NoFrame
    /\ contamination = DefaultContamination
    /\ np_random \in EntropySeeds
    /\ stdout = <<>>
    /\ exit_status = <<>>
    /\ calls = <<>>
    /\ runs = <<>>

\* read_logs: the file opens and readlines() returns its lines.
ReadLogs ==
    /\ pc = "read_logs"
    /\ file_state = "readable"
    /\ \E content \in SeqsUpTo(SampleLines, MaxLines) : logs' = content
    /\ calls' = Append(calls, Call("read_logs", 0))
    /\ pc' = "parse_logs"
    /\ UNCHANGED <<file_path, file_state, df, contamination, np_random, stdout,
                   exit_status, runs>>

\* Faulty variant of the handler: the message is printed, sys.exit(1) is
\* missing, and main goes on with no lines.
ReadLogsNotFoundGoesOn ==
    /\ pc = "read_logs"
    /\ file_state = "missing"
    /\ calls' = Append(calls, Call("read_logs", 0))
    /\ stdout' = Append(stdout, Message("Error: The file was not found.", file_path, NoFrame))
    /\ pc' = "parse_logs"
    /\ UNCHANGED <<file_path, file_state, logs, df, contamination, np_random,
                   exit_status, runs>>

\* read_logs: FileNotFoundError, the message and sys.exit(1).
ReadLogsNotFound ==
    /\ pc = "read_logs"
    /\ file_state = "missing"
    /\ calls' = Append(calls, Call("read_logs", 0))
    /\ stdout' = Append(stdout, Message("Error: The file was not found.", file_path, NoFrame))
    /\ exit_status' = <<1>>
    /\ pc' = "exited"
    /\ UNCHANGED <<file_path, file_state, logs, df, contamination, np_random, runs>>

\* read_logs: any other exception, the message and sys.exit(1).
ReadLogsError ==
    /\ pc = "read_logs"
    /\ file_state = "unreadable"
    /\ calls' = Append(calls, Call("read_logs", 0))
    /\ stdout' = Append(stdout, Message("Error reading file", file_path, NoFrame))
    /\ exit_status' = <<1>>
    /\ pc' = "exited"
    /\ UNCHANGED <<file_path, file_state, logs, df, contamination, np_random, runs>>

\* df = parse_logs(logs)
ParseLogs ==
    /\ pc = "parse_logs"
    /\ df' = parse_logs(logs)
    /\ calls' = Append(calls, Call("parse_logs", Len(logs)))
    /\ pc' = "check_empty"
    /\ UNCHANGED <<file_path, file_state, logs, contamination, np_random, stdout,
                   exit_status, runs>>

\* if df.empty: the message and sys.exit(0).
NoValidEntries ==
    /\ pc = "check_empty"
    /\ empty(df)
    /\ stdout' = Append(stdout, Message("No valid log entries found.", "", NoFrame))
    /\ exit_status' = <<0>>
    /\ pc' = "exited"
    /\ UNCHANGED <<file_path, file_state, logs, df, contamination, np_random, calls, runs>>

\* df = feature_engineering(df)
FeatureEngineering ==
    /\ pc = "check_empty"
    /\ ~empty(df)
    /\ df' = feature_engineering(df)
    /\ calls' = Append(calls, Call("feature_engineering", NRows(df)))
    /\ pc' = "detect_anomalies"
    /\ UNCHANGED <<file_path, file_state, logs, contamination, np_random, stdout,
                   exit_status, runs>>

\* df = detect_anomalies(df, contamination=0.1)
DetectAnomalies ==
    /\ pc = "detect_anomalies"
    /\ df' = detect_anomalies(df, contamination, np_random)
    /\ calls' = Append(calls, Call("detect_anomalies", NRows(df)))
    /\ pc' = "report"
    /\ UNCHANGED <<file_path, file_state, logs, contamination, np_random, stdout,
                   exit_status, runs>>

\* Faulty variant of the filter: every row is reported.
anomalies_of_all(frame) == frame

\* df[df["is_anomaly"] == Anomaly]
anomalies_of(frame) ==
    Filter(frame, [i \in 1..NRows(frame) |-> frame.columns["is_anomaly"][i] = Anomaly])

\* The report: one of the two messages, then main returns.
Report ==
    /\ pc = "report"
    /\ LET anomalies == anomalies_of(df)
       IN IF empty(anomalies)
          THEN stdout' = Append(stdout, Message("No anomalies detected.", "", NoFrame))
          ELSE stdout' = Append(stdout, Message("Detected Anomalies:", "", anomalies))
    /\ exit_status' = <<0>>
    /\ pc' = "done"
    /\ UNCHANGED <<file_path, file_state, logs, df, contamination, np_random, calls, runs>>

Next ==
    \/ ReadLogs
    \/ ReadLogsNotFound
    \/ ReadLogsError
    \/ ParseLogs
    \/ NoValidEntries
    \/ FeatureEngineering
    \/ DetectAnomalies
    \/ Report

Spec == Init /\ [][Next]_vars

(***************************************************************************)
(* detect_anomalies called on its own, several times on the same input.    *)
(***************************************************************************)
SampleVectors == {<<1, 2>>, <<1, 9>>, <<4, 2>>, <<4, 30>>, <<0, 9>>}

SampleContaminations == {[num |-> 1, den |-> 10], [num |-> 1, den |-> 2], [num |-> 9, den |-> 10]}

InitDetect ==
    /\ pc = "detect_anomalies"
    /\ file_path = "system_logs.txt"
    /\ file_state = "readable"
    /\ logs = <<>>
    /\ \E X \in SeqsUpTo(SampleVectors, MaxVectors) :
          /\ X # <<>>
          /\ df = DataFrame(X, <<"level_score", "message_length">>)
    /\ contamination \in SampleContaminations
    /\ np_random \in EntropySeeds
    /\ stdout = <<>>
    /\ exit_status = <<>>
    /\ calls = <<>>
    /\ runs = <<>>

\* One run, in a process whose global generator is in any state; the scores the
\* fitted model gives are kept beside the labelled frame.
DetectRun ==
    /\ pc = "detect_anomalies"
    /\ Len(runs) < MaxRuns
    /\ \E g \in EntropySeeds :
          /\ np_random' = g
          /\ df' = detect_anomalies(df, contamination, g)
          /\ runs' = Append(runs,
                 [global |-> g,
                  scores |-> score_samples(Features(df), check_random_state(RandomSeed, g)),
                  frame |-> detect_anomalies(df, contamination, g)])
    /\ calls' = Append(calls, Call("detect_anomalies", NRows(df)))
    /\ UNCHANGED <<pc, file_path, file_state, logs, contamination, stdout, exit_status>>

NextDetect == DetectRun

SpecDetect == InitDetect /\ [][NextDetect]_vars

(***************************************************************************)
(* What the claims speak of, stated apart from parse_rows and split.       *)
(***************************************************************************)
\* s without the whitespace at its two ends: from its first to its last
\* character that is not whitespace.
Trimmed(s) ==
    LET solid == {i \in 1..Len(s) : s[i] \notin Whitespace}
    IN IF solid = {} THEN <<>>
       ELSE SubSeq(s, CHOOSE i \in solid : \A j \in solid : i <= j,
                      CHOOSE i \in solid : \A j \in solid : i >= j)

\* s without the whitespace at its end only.
TrimmedAtEnd(s) ==
    LET solid == {i \in 1..Len(s) : s[i] \notin Whitespace}
    IN IF solid = {} THEN <<>>
       ELSE SubSeq(s, 1, CHOOSE i \in solid : \A j \in solid : i >= j)

\* The positions of the spaces of s, in increasing order.
SpacesOf(s) == Positions([i \in 1..Len(s) |-> s[i] = " "], Len(s))

\* s has at least 4 fields when cut at single spaces.
HasFourFields(s) == Len(SpacesOf(s)) >= 3

\* The k-th of the 4 fields of s, the 4th being all that follows the third space.
Field(s, k) ==
    LET sp == SpacesOf(s)
    IN CASE k = 1 -> SubSeq(s, 1, sp[1] - 1)
         [] k = 2 -> SubSeq(s, sp[1] + 1, sp[2] - 1)
         [] k = 3 -> SubSeq(s, sp[2] + 1, sp[3] - 1)
         [] k = 4 -> SubSeq(s, sp[3] + 1, Len(s))

\* The timestamp string of s: fields 1 and 2 joined by a space.
TimestampString(s) == Field(s, 1) \o <<" ">> \o Field(s, 2)

\* The line gives a record: 4 fields once trimmed, and a timestamp that parses.
Survives(line) ==
    /\ HasFourFields(Trimmed(line))
    /\ to_datetime(TimestampString(Trimmed(line))) # NaT

\* The records of the lines, each line trimmed by Trim before it is cut.
ExpectedRows(lines, Trim(_)) ==
    LET Gives(i) == /\ HasFourFields(Trim(lines[i]))
                    /\ to_datetime(TimestampString(Trim(lines[i]))) # NaT
        pos == Positions([i \in 1..Len(lines) |-> Gives(i)], Len(lines))
    IN [k \in 1..Len(pos) |->
           LET s == Trim(lines[pos[k]])
           IN <<to_datetime(TimestampString(s)), Field(s, 3), Field(s, 4)>>]

RowsOf(frame) ==
    [i \in 1..NRows(frame) |->
        <<frame.columns["timestamp"][i], frame.columns["level"][i], frame.columns["message"][i]>>]

CountOf(seq, v) == Cardinality({i \in 1..Len(seq) : seq[i] = v})

AfterDetection == pc \in {"report", "done"}

(***************************************************************************)
(* C1: after parse_logs, feature_engineering and detect_anomalies the      *)
(* frame has one row per line that survived parsing and none for a dropped *)
(* line: its rows are, in order, the surviving lines, and the feature      *)
(* columns and the label columns have as many entries as there are         *)
(* surviving lines, each aligned with its line.                            *)
(***************************************************************************)
C1_OneRowPerSurvivingLine ==
    AfterDetection =>
        LET kept == SelectSeq(logs, Survives)
        IN /\ NRows(df) = Len(kept)
           /\ \A c \in {"level_score", "message_length", "anomaly", "is_anomaly"} :
                 c \in DOMAIN df.columns /\ Len(df.columns[c]) = Len(kept)
           /\ \A k \in 1..Len(kept) :
                 /\ df.columns["level"][k] = Field(Trimmed(kept[k]), 3)
                 /\ df.columns["message"][k] = Field(Trimmed(kept[k]), 4)
                 /\ df.columns["message_length"][k] = Len(Field(Trimmed(kept[k]), 4))
                 /\ df.columns["is_anomaly"][k] \in {Anomaly, Normal}

\* A finished run over three lines whose middle line was dropped.
C1_Witness ==
    /\ pc = "done"
    /\ Len(logs) = 3
    /\ Survives(logs[1]) /\ ~Survives(logs[2]) /\ Survives(logs[3])
    /\ logs[1] # logs[3]
    /\ NRows(df) = 2

(***************************************************************************)
(* C2: parse_logs gives a record for a line if and only if the line has at *)
(* least 4 fields and its timestamp string parses; any other line is       *)
(* dropped with nothing printed, no exit and nothing kept about it.        *)
(***************************************************************************)
C2_RecordIffFourFieldsAndTimestamp ==
    pc = "check_empty" =>
        LET FourBefore(i) == Cardinality({j \in 1..(i - 1) : HasFourFields(Trimmed(logs[j]))})
            kept == Positions([i \in 1..Len(logs) |-> Survives(logs[i])], Len(logs))
        IN /\ df.index = [k \in 1..Len(kept) |-> FourBefore(kept[k])]
           /\ \A k \in 1..NRows(df) : df.columns["timestamp"][k] # NaT
           /\ DOMAIN df.columns = {"timestamp", "level", "message"}
           /\ \A c \in DOMAIN df.columns : Len(df.columns[c]) = Len(kept)
           /\ stdout = <<>>
           /\ exit_status = <<>>

\* Parsed: a line of 3 fields, a line with a bad timestamp and a good line.
C2_Witness ==
    /\ pc = "check_empty"
    /\ Len(logs) = 3
    /\ ~HasFourFields(Trimmed(logs[1]))
    /\ HasFourFields(Trimmed(logs[2])) /\ ~Survives(logs[2])
    /\ Survives(logs[3])
    /\ df.index = <<1>>

(***************************************************************************)
(* C3 as stated: parse_logs removes trailing whitespace only, then cuts    *)
(* the line at single spaces into at most 4 fields; fields 1 and 2 joined  *)
(* by a space are the timestamp string, field 3 the level, field 4 the     *)
(* message.                                                                *)
(***************************************************************************)
C3_TrailingTrimOnly ==
    pc = "check_empty" => RowsOf(df) = ExpectedRows(logs, TrimmedAtEnd)

(***************************************************************************)
(* C3 amended: parse_logs removes whitespace from both ends of the line,   *)
(* then cuts it at single spaces into at most 4 fields, the 4th taking all *)
(* the remaining text; fields 1 and 2 joined by a space are the timestamp  *)
(* string, field 3 the level, field 4 the message.                         *)
(***************************************************************************)
C3_TrimBothEndsThenSplit ==
    pc = "check_empty" => RowsOf(df) = ExpectedRows(logs, Trimmed)

\* Parsed: a line that starts with whitespace, and a line whose message
\* holds a space and follows two spaces.
C3_Witness ==
    /\ pc = "check_empty"
    /\ NRows(df) = 2
    /\ \E i \in 1..Len(logs) : Head(logs[i]) \in Whitespace /\ Survives(logs[i])
    /\ \E k \in 1..NRows(df) : Head(df.columns["message"][k]) = " "

(***************************************************************************)
(* C4: feature_engineering gives level_score 1 for INFO, 2 for WARNING, 3  *)
(* for ERROR, 4 for CRITICAL and 0 for any other level, and message_length *)
(* the number of characters of the message as parsed.                      *)
(***************************************************************************)
C4_LevelScoreAndMessageLength ==
    pc \in {"detect_anomalies", "report", "done"} =>
        LET rows == ExpectedRows(logs, Trimmed)
        IN /\ NRows(df) = Len(rows)
           /\ \A k \in 1..Len(rows) :
                 /\ df.columns["level_score"][k] =
                       CASE rows[k][2] = INFO -> 1
                         [] rows[k][2] = WARNING -> 2
                         [] rows[k][2] = ERROR -> 3
                         [] rows[k][2] = CRITICAL -> 4
                         [] OTHER -> 0
                 /\ df.columns["message_length"][k] = Len(rows[k][3])

\* Features of a CRITICAL record, of a DEBUG record and of a record with an
\* empty level and a message that starts with a space.
C4_Witness ==
    /\ pc = "detect_anomalies"
    /\ df.columns["level"] = <<CRITICAL, DEBUG, <<>>>>
    /\ df.columns["level_score"] = <<4, 0, 0>>
    /\ df.columns["message_length"] = <<9, 2, 7>>

(***************************************************************************)
(* C5: when parsing leaves no valid entry, main ends at once with exit     *)
(* status 0 after the "no valid entries" message, and feature_engineering  *)
(* and detect_anomalies are never called on an empty frame.                *)
(***************************************************************************)
C5_NoValidEntriesExit ==
    /\ \A k \in 1..Len(calls) :
          calls[k].fn \in {"feature_engineering", "detect_anomalies"} => calls[k].n > 0
    /\ (pc = "check_empty" /\ NRows(df) = 0) =>
          ENABLED NoValidEntries /\ ~ENABLED FeatureEngineering
    /\ (pc \in {"exited", "done"} /\ file_state = "readable" /\ SelectSeq(logs, Survives) = <<>>) =>
          /\ pc = "exited"
          /\ exit_status = <<0>>
          /\ stdout = <<Message("No valid log entries found.", "", NoFrame)>>
          /\ calls = <<Call("read_logs", 0), Call("parse_logs", Len(logs))>>

\* The run ended on a file of two lines, neither of them valid.
C5_Witness ==
    /\ pc = "exited"
    /\ file_state = "readable"
    /\ Len(logs) = 2
    /\ HasFourFields(Trimmed(logs[1])) /\ ~HasFourFields(Trimmed(logs[2]))
    /\ exit_status = <<0>>

(***************************************************************************)
(* C6: when the file is missing or unreadable, read_logs ends the process  *)
(* at once with a non-zero exit status and a message naming the file, and  *)
(* no later stage runs.                                                    *)
(***************************************************************************)
C6_InputUnavailableExit ==
    (file_state # "readable" /\ pc # "read_logs") =>
        /\ pc = "exited"
        /\ Len(exit_status) = 1 /\ exit_status[1] # 0
        /\ Len(stdout) = 1 /\ stdout[1].file = file_path
        /\ calls = <<Call("read_logs", 0)>>
        /\ logs = <<>>
        /\ df = NoFrame

\* The run ended on a missing file other than the default one.
C6_Witness ==
    /\ pc = "exited"
    /\ file_state = "missing"
    /\ file_path = "app.log"
    /\ exit_status = <<1>>

(***************************************************************************)
(* C7 as stated: detect_anomalies labels Anomaly exactly round(c * n) of   *)
(* the n vectors, those of lowest score, whatever the scores.              *)
(***************************************************************************)
RoundHalfEven(a, b) ==
    LET q == a \div b
        r == a % b
    IN IF 2 * r < b THEN q
       ELSE IF 2 * r > b THEN q + 1
       ELSE IF q % 2 = 0 THEN q ELSE q + 1

C9_ReportsExactlyAnomalies ==
    pc = "done" =>
        LET label == df.columns["is_anomaly"]
            flagged == Positions([i \in 1..NRows(df) |-> label[i] = Anomaly], NRows(df))
            last == stdout[Len(stdout)]
        IN /\ Len(stdout) = 1
           /\ (last.text = "No anomalies detected.") = (flagged = <<>>)
           /\ (last.text = "Detected Anomalies:") = (flagged # <<>>)
           /\ NRows(last.rows) = Len(flagged)
           /\ \A k \in 1..Len(flagged) :
                 /\ last.rows.index[k] = df.index[flagged[k]]
                 /\ \A c \in DOMAIN df.columns :
                       last.rows.columns[c][k] = df.columns[c][flagged[k]]
                 /\ last.rows.columns["is_anomaly"][k] = Anomaly

\* A report that shows one row and leaves out two rows labelled Normal.
C9_Witness ==
    /\ pc = "done"
    /\ stdout[Len(stdout)].text = "Detected Anomalies:"
    /\ NRows(stdout[Len(stdout)].rows) = 1
    /\ CountOf(df.columns["is_anomaly"], Normal) = 2

(***************************************************************************)
(* C10: feature_engineering and detect_anomalies only add columns: the     *)
(* row labels and every column the frame already had, timestamp, level and *)
(* message among them, are left as they were, in the same order.           *)
(***************************************************************************)
OnlyAddsColumns(before, after) ==
    /\ after.index = before.index
    /\ \A c \in DOMAIN before.columns :
          c \in DOMAIN after.columns /\ after.columns[c] = before.columns[c]

C10_Step ==
    pc \in {"check_empty", "detect_anomalies"} =>
        /\ OnlyAddsColumns(df, df')
        /\ (pc' = "detect_anomalies") =>
              (DOMAIN df'.columns = DOMAIN df.columns \cup {"level_score", "message_length"})
        /\ (pc' = "report") =>
              (DOMAIN df'.columns = DOMAIN df.columns \cup {"anomaly", "is_anomaly"})

C10_OnlyAddsColumns == [][C10_Step]_vars

\* Both stages have run on three records, one of which was flagged.
C10_Witness ==
    /\ pc = "report"
    /\ NRows(df) = 3
    /\ CountOf(df.columns["is_anomaly"], Anomaly) = 1
    /\ RowsOf(df) = RowsOf(parse_logs(logs))

=============================================================================
